---- MODULE Spec2Model ----
(***************************************************************************)
(* The globe-viewer pages of Vison-Earth: the Cesium loader script, the    *)
(* page components that bootstrap a Cesium viewer, the layer switcher and  *)
(* the weather marker manager.  The repository holds several variants of   *)
(* the same page; the variant that is routed to is fixed per behaviour:    *)
(*   "A"  frontend/src/pages/EarthViewerPage.tsx, lines 31-722             *)
(*   "B"  frontend/src/pages/EarthViewerPage.tsx, lines 763-1392           *)
(*   "C"  unnamed/part_007                                                 *)
(*   "S"  frontend/src/pages/SimpleEarthViewer.tsx                         *)
(*   "T"  unnamed/part_010, the SimpleEarthViewer that only times out      *)
(* A page instance is one mount of the component (its React state and its  *)
(* refs); window and document state is shared by all instances.            *)
(* Spec is the life cycle of the page (loader, mounts, initialization, the *)
(* initial weather request); SpecLayers adds layer switches of every       *)
(* category on a page whose library is loaded; SpecWeather adds globe      *)
(* clicks and the weather requests they start; SpecLive is Spec with the   *)
(* timers and promise continuations scheduled fairly.  SpecOps is the page *)
(* with its toolbar, layer panel and the WebGL context events; SpecFetch   *)
(* calls fetchWeatherData on any mounted page; SpecPoll is variant C in a  *)
(* document without loader script; SpecT is variant T; SpecSettings is the *)
(* settings page of unnamed/part_008 and unnamed/part_009.                 *)
(***************************************************************************)
EXTENDS Integers, Sequences, FiniteSets, TLC

\* ------------------------------------------------------------------ bounds
MaxMounts == 2      \* page instances mounted one after the other
MaxFetches == 2     \* weather requests issued by one page instance
MaxPollB == 2       \* polls of the 100 ms wait loop of variant B (50 in the code)
MaxZoom == 1        \* zoom steps the camera is followed away from its first height
MaxTime == 6        \* seconds the settings page is followed

Inst == 1..MaxMounts
NULL == "null"
NoViewer == 0
NoEntity == [id |-> 0, loc |-> NULL]
NoSwitch == [cat |-> NULL, applied |-> FALSE, baseFailed |-> FALSE]

\* the catalog of the layer panel
Catalog == {"Satellite", "Live", "HD", "Radar", "Precipitation", "Wind",
            "Temperature", "Humidity", "Pressure"}
WeatherStyle == {"Precipitation", "Wind", "Temperature", "Humidity", "Pressure"}

\* places of a layer switch where the imagery library may throw or be absent
FailPoints == {"base", "overlay", "fallback", "nogrid"}

\* steps of viewer bootstrap that may throw
BootThrows == {"none", "token", "ctor", "post"}

ClickLocs == {"P1"}
DefaultLoc == "India"

VARIABLES
  variant,        \* which page component the router mounts
  loader,         \* which loader script the document carries
  webgl,          \* what the WebGL capability check returns
  cesium,         \* window.Cesium is defined
  cesiumLoaded,   \* window.CESIUM_LOADED
  cesiumReady,    \* state of the promise window.CESIUM_READY
  scripts,        \* script tags for Cesium.js, in order of injection
  loadTimers,     \* pending loader timeouts (30 s of part_000, 2 s of cesium-loader.js)
  loadEvent,      \* the window load listener of the loader: "none", "pending" or "fired"
  cur,            \* number of page instances mounted so far
  alive,          \* alive[i]: instance i is mounted
  pc,             \* pc[i]: where the initialization of instance i stands
  polls,          \* polls[i]: attempts of the wait loop of variant B
  sTimer,         \* sTimer[i]: the 5 s timer of variant S and the loading value it captured
  loading, error, activeLayer,
  weatherLoading, weatherError, weatherData,
  viewerRef, weatherEntityRef,
  fetches,        \* fetches[i]: weather requests in flight
  fetchCount,     \* fetchCount[i]: weather requests issued so far
  viewers,        \* every viewer constructed so far
  lastSwitch,     \* lastSwitch[i]: what the last layer-switch call was given and found
  settingsPage,   \* which SettingsPage component the router mounts
  settings,       \* the settings state of the settings page
  saved,          \* the saved state of the settings page: the notification is shown
  saveTimers,     \* due times of the pending 3 s timers of the settings page
  now,            \* seconds elapsed on the settings page
  savedAt         \* history: time of the last save no change has followed

vars == <<variant, loader, webgl, cesium, cesiumLoaded, cesiumReady, scripts,
          loadTimers, loadEvent, cur, alive, pc, polls, sTimer, loading, error,
          activeLayer, weatherLoading, weatherError, weatherData, viewerRef,
          weatherEntityRef, fetches, fetchCount, viewers, lastSwitch,
          settingsPage, settings, saved, saveTimers, now, savedAt>>

globals == <<variant, loader, webgl>>
settingsVars == <<settingsPage, settings, saved, saveTimers, now, savedAt>>
loaderVars == <<cesium, cesiumLoaded, cesiumReady, scripts, loadTimers, loadEvent>>
pageVars == <<cur, alive, pc, polls, sTimer, loading, error, activeLayer, viewerRef,
              viewers, lastSwitch>>
weatherVars == <<weatherLoading, weatherError, weatherData, weatherEntityRef, fetches, fetchCount>>

\* ----------------------------------------------------------------- helpers
\* a state setter of a component: ignored once the component is unmounted
SetState(f, i, v) == IF alive[i] THEN [f EXCEPT ![i] = v] ELSE f

\* viewer.isDestroyed()
IsDestroyed(v) == viewers[v].destroyed

\* viewerRef.current && !viewerRef.current.isDestroyed()
LiveRef(i) == viewerRef[i] # NoViewer /\ ~IsDestroyed(viewerRef[i])

LiveViewers == {v \in DOMAIN viewers : ~viewers[v].destroyed}

\* viewer.destroy(): the widget, its imagery layers and its entities are
\* released; destroys counts the calls of destroy() on the viewer
Destroy(vs, v) ==
  [vs EXCEPT ![v].destroyed = TRUE, ![v].destroys = @ + 1, ![v].layers = <<>>,
             ![v].entities = {}, ![v].material = NULL, ![v].handler = FALSE,
             ![v].height = 0, ![v].contextLost = FALSE]

Layer(src, role, alpha) == [src |-> src, role |-> role, alpha |-> alpha, by |-> "cur"]

\* layers that survive a switch are no longer layers of the current call
Age(ls) == [k \in DOMAIN ls |-> [ls[k] EXCEPT !.by = "old"]]


\* ------------------------------------------------------------ layer switch
\* The result of a switch on a layer list: the new list, the globe material,
\* whether setError was called and whether the handler ended by an exception.
SwitchResult(ls, material, err) == [layers |-> ls, material |-> material, err |-> err]

HasOverlayA(cat) == cat \in WeatherStyle \cup {"Radar"}

BaseSrcA(cat) ==
  CASE cat = "Live" -> "Ion3"
    [] cat = "HD" -> "Ion3812"
    [] OTHER -> "Ion2"

OverlayA(cat) ==
  CASE cat = "Radar" -> Layer("GOES16", "overlay", 6)
    [] cat = "Precipitation" -> Layer("Grid", "overlay", 5)
    [] cat = "Wind" -> Layer("Grid", "overlay", 3)
    [] cat = "Temperature" -> Layer("Grid", "overlay", 5)
    [] OTHER -> Layer("Grid", "overlay", 4)

\* variant A: every layer but the one at index 0 is removed, the layers of the
\* category are added, and on an exception one more Ion layer is tried
SwitchLayersA(ls, material, cat, F) ==
  LET kept == IF Len(ls) > 1 THEN <<Age(ls)[1]>> ELSE Age(ls)
      base == Layer(BaseSrcA(cat), "base", 10)
      tried == IF "base" \in F THEN kept
               ELSE IF HasOverlayA(cat) /\ "overlay" \notin F
                    THEN kept \o <<base, OverlayA(cat)>>
                    ELSE kept \o <<base>>
      threw == "base" \in F \/ (HasOverlayA(cat) /\ "overlay" \in F)
      final == IF threw /\ "fallback" \notin F
               THEN tried \o <<Layer("Ion2", "fallback", 10)>>
               ELSE tried
  IN SwitchResult(final, material, FALSE)

OverlayB(cat) ==
  CASE cat = "Temperature" -> <<Layer("NightLights", "overlay", 5)>>
    [] cat = "Precipitation" -> <<Layer("watercolor", "overlay", 5)>>
    [] cat = "Clouds" -> <<Layer("moonSmall", "overlay", 3)>>
    [] OTHER -> <<>>

\* variant B: every layer is removed, the layers of the category are added,
\* and an exception sets the page error
SwitchLayersB(ls, material, cat, F) ==
  LET base == Layer("NaturalEarthII", "base", 10)
      threw == "base" \in F \/ (OverlayB(cat) # <<>> /\ "overlay" \in F)
      final == IF "base" \in F THEN <<>>
               ELSE IF "overlay" \in F THEN <<base>>
               ELSE <<base>> \o OverlayB(cat)
  IN SwitchResult(final, material, threw)

\* variant C: every layer is removed, the NASA GIBS base layer is added (or
\* the Natural Earth layer when that throws), then the overlay of the category
SwitchLayersC(ls, material, cat, F) ==
  LET base == IF "base" \notin F THEN <<Layer("GIBS", "base", 10)>>
              ELSE IF "fallback" \notin F THEN <<Layer("NaturalEarthII", "fallback", 10)>>
              ELSE <<>>
      uncaught == "base" \in F /\ "fallback" \in F
      tinted == cat \in WeatherStyle \cup {"Radar"}
      overlay == IF cat = "Live" /\ "overlay" \notin F
                   THEN <<Layer("OSM", "overlay", 5)>>
                 ELSE IF tinted /\ "nogrid" \notin F /\ "overlay" \notin F
                   THEN <<Layer("Grid", "overlay", 7)>>
                 ELSE <<>>
      tint == IF tinted /\ ("nogrid" \in F \/ "overlay" \notin F) THEN cat ELSE material
  IN IF uncaught THEN SwitchResult(<<>>, material, FALSE)
     ELSE SwitchResult(base \o overlay, tint, FALSE)

SwitchLayers(ls, material, cat, F) ==
  CASE variant = "A" -> SwitchLayersA(ls, material, cat, F)
    [] variant = "B" -> SwitchLayersB(ls, material, cat, F)
    [] OTHER -> SwitchLayersC(ls, material, cat, F)

\* the throw points that a switch of the variant can meet
FailSets ==
  CASE variant = "A" -> SUBSET {"base", "overlay", "fallback"}
    [] variant = "B" -> SUBSET {"base", "overlay"}
    [] OTHER -> SUBSET FailPoints

\* the guard of the switch handler: variant B tests the reference only
SwitchGuard(i) ==
  IF variant = "B" THEN viewerRef[i] # NoViewer ELSE LiveRef(i)

\* ------------------------------------------------------------------ loader
\* a script tag for Cesium.js: owner 0 is the loader, owner i a page instance
Script(src, owner) == [src |-> src, owner |-> owner, st |-> "loading", inDoc |-> TRUE]

\* a promise settles once: CESIUM_RESOLVE / CESIUM_REJECT after that do nothing
Settle(p, to) == IF p = "pending" THEN to ELSE p

\* part_000 injects the library itself and goes with the pages that wait for
\* it; cesium-loader.js injects nothing and goes with the pages that do
Configs == {<<"A", "part000">>, <<"C", "part000">>, <<"C", "public">>,
            <<"B", "public">>, <<"S", "public">>}

\* loadCesium() of part_000: one script tag and one 30 s timer per call
LoadCesium(sc) == Append(sc, Script("abs", 0))

\* tryFallbackLoading() of part_000: a second script tag, relative path
TryFallbackLoading(sc) == Append(sc, Script("rel", 0))

\* onload of a script of the loader
LoaderScriptLoad(k, def) ==
  /\ k \in DOMAIN scripts
  /\ scripts[k].owner = 0 /\ scripts[k].st = "loading"
  /\ cesium' = (cesium \/ def)
  /\ LET done == [scripts EXCEPT ![k].st = "done"]
     IN IF cesium'
        THEN /\ cesiumLoaded' = TRUE
             /\ cesiumReady' = Settle(cesiumReady, "resolved")
             /\ scripts' = done
        ELSE /\ cesiumLoaded' = cesiumLoaded
             /\ IF scripts[k].src = "abs"
                THEN scripts' = TryFallbackLoading(done) /\ cesiumReady' = cesiumReady
                ELSE scripts' = done /\ cesiumReady' = Settle(cesiumReady, "rejected")
  /\ UNCHANGED <<globals, settingsVars, loadTimers, loadEvent, pageVars, weatherVars>>

\* onerror of a script of the loader
LoaderScriptError(k) ==
  /\ k \in DOMAIN scripts
  /\ scripts[k].owner = 0 /\ scripts[k].st = "loading"
  /\ LET done == [scripts EXCEPT ![k].st = "done"]
     IN IF scripts[k].src = "abs"
        THEN scripts' = TryFallbackLoading(done) /\ cesiumReady' = cesiumReady
        ELSE scripts' = done /\ cesiumReady' = Settle(cesiumReady, "rejected")
  /\ UNCHANGED <<globals, settingsVars, cesium, cesiumLoaded, loadTimers, loadEvent, pageVars, weatherVars>>

\* a loader timer that resolves when the library is there and never rejects
LoaderTimeoutNoReject ==
  /\ loadTimers > 0
  /\ loadTimers' = loadTimers - 1
  /\ IF cesium
     THEN cesiumLoaded' = TRUE /\ cesiumReady' = Settle(cesiumReady, "resolved")
     ELSE UNCHANGED <<cesiumLoaded, cesiumReady>>
  /\ UNCHANGED <<globals, settingsVars, cesium, scripts, loadEvent, pageVars, weatherVars>>

\* the 30 s timer of part_000, the 2 s timer of cesium-loader.js
LoaderTimeout ==
  /\ loadTimers > 0
  /\ loadTimers' = loadTimers - 1
  /\ IF loader = "part000" /\ cesiumLoaded
     THEN UNCHANGED <<cesiumLoaded, cesiumReady>>
     ELSE IF cesium
          THEN cesiumLoaded' = TRUE /\ cesiumReady' = Settle(cesiumReady, "resolved")
          ELSE cesiumLoaded' = cesiumLoaded /\ cesiumReady' = Settle(cesiumReady, "rejected")
  /\ UNCHANGED <<globals, settingsVars, cesium, scripts, loadEvent, pageVars, weatherVars>>

\* the window load event: it waits for the scripts of the document
WindowLoad ==
  /\ loadEvent = "pending"
  /\ \A k \in DOMAIN scripts : scripts[k].st = "loading" => ~scripts[k].inDoc
  /\ loadEvent' = "fired"
  /\ IF loader = "part000"
     THEN /\ UNCHANGED <<cesiumLoaded, cesiumReady>>
          /\ IF ~cesiumLoaded
             THEN scripts' = LoadCesium(scripts) /\ loadTimers' = loadTimers + 1
             ELSE UNCHANGED <<scripts, loadTimers>>
     ELSE /\ scripts' = scripts
          /\ IF cesium
             THEN /\ cesiumLoaded' = TRUE
                  /\ cesiumReady' = Settle(cesiumReady, "resolved")
                  /\ loadTimers' = loadTimers
             ELSE /\ loadTimers' = loadTimers + 1
                  /\ UNCHANGED <<cesiumLoaded, cesiumReady>>
  /\ UNCHANGED <<globals, settingsVars, cesium, pageVars, weatherVars>>

\* the settings page is not mounted: its state is the one of construction
DefaultSettings == [theme |-> "dark", maxQualityMode |-> FALSE]
NoSave == -1
InitSettings ==
  /\ settingsPage = "none"
  /\ settings = DefaultSettings
  /\ saved = FALSE
  /\ saveTimers = {}
  /\ now = 0
  /\ savedAt = NoSave

\* the state after the loader script has been evaluated and before any mount
Init ==
  /\ \E c \in Configs : variant = c[1] /\ loader = c[2]
  /\ webgl \in BOOLEAN
  /\ cesium \in BOOLEAN
  /\ cesiumLoaded = cesium
  /\ cesiumReady = IF cesium THEN "resolved" ELSE "pending"
  /\ scripts = IF ~cesium /\ loader = "part000" THEN LoadCesium(<<>>) ELSE <<>>
  /\ loadTimers = IF ~cesium /\ loader = "part000" THEN 1 ELSE 0
  /\ loadEvent = IF cesium /\ loader = "part000" THEN "none" ELSE "pending"
  /\ cur = 0
  /\ alive = [i \in Inst |-> FALSE]
  /\ pc = [i \in Inst |-> "idle"]
  /\ polls = [i \in Inst |-> 0]
  /\ sTimer = [i \in Inst |-> "none"]
  /\ loading = [i \in Inst |-> TRUE]
  /\ error = [i \in Inst |-> NULL]
  /\ activeLayer = [i \in Inst |-> "Satellite"]
  /\ weatherLoading = [i \in Inst |-> FALSE]
  /\ weatherError = [i \in Inst |-> NULL]
  /\ weatherData = [i \in Inst |-> NULL]
  /\ viewerRef = [i \in Inst |-> NoViewer]
  /\ weatherEntityRef = [i \in Inst |-> NoEntity]
  /\ fetches = [i \in Inst |-> {}]
  /\ fetchCount = [i \in Inst |-> 0]
  /\ viewers = <<>>
  /\ lastSwitch = [i \in Inst |-> NoSwitch]
  /\ InitSettings

\* ----------------------------------------------------------------- weather
\* the weatherLoading that fetchWeatherData reads: the handler is created by
\* the mount effect (dependency list []) and closes over the first render
WeatherLoadingInClosure(i) == FALSE

\* fetchWeatherData up to its await
FetchWeatherData(i, loc) ==
  IF WeatherLoadingInClosure(i)
  THEN UNCHANGED weatherVars
  ELSE /\ fetchCount' = [fetchCount EXCEPT ![i] = @ + 1]
       /\ fetches' = [fetches EXCEPT ![i] = @ \cup {[id |-> fetchCount[i] + 1, loc |-> loc]}]
       /\ weatherLoading' = SetState(weatherLoading, i, TRUE)
       /\ weatherError' = SetState(weatherError, i, NULL)
       /\ UNCHANGED <<weatherData, weatherEntityRef>>

\* addWeatherMarker without the removal of the previous marker
AddWeatherMarkerNoRemove(i, e) ==
  IF ~LiveRef(i)
  THEN [vs |-> viewers, ref |-> weatherEntityRef[i]]
  ELSE [vs |-> [viewers EXCEPT ![viewerRef[i]].entities = @ \cup {e}], ref |-> e]

\* addWeatherMarker: the viewers and the entity reference it leaves
AddWeatherMarker(i, e) ==
  IF ~LiveRef(i)
  THEN [vs |-> viewers, ref |-> weatherEntityRef[i]]
  ELSE LET v == viewerRef[i]
           old == weatherEntityRef[i]
           kept == IF old # NoEntity /\ old \in viewers[v].entities
                   THEN viewers[v].entities \ {old}
                   ELSE viewers[v].entities
       IN [vs |-> [viewers EXCEPT ![v].entities = kept \cup {e}], ref |-> e]

\* fetchWeatherData whose catch block also removes the marker
FetchSettleDropsMarker(i, f, ok) ==
  /\ f \in fetches[i]
  /\ fetches' = [fetches EXCEPT ![i] = @ \ {f}]
  /\ IF ok
     THEN /\ weatherData' = SetState(weatherData, i, f.loc)
          /\ viewers' = AddWeatherMarker(i, f).vs
          /\ weatherEntityRef' = [weatherEntityRef EXCEPT ![i] = AddWeatherMarker(i, f).ref]
          /\ weatherError' = weatherError
     ELSE /\ weatherError' = SetState(weatherError, i, "failed")
          /\ viewers' = IF LiveRef(i)
                        THEN [viewers EXCEPT ![viewerRef[i]].entities = {}]
                        ELSE viewers
          /\ UNCHANGED <<weatherData, weatherEntityRef>>
  /\ weatherLoading' = SetState(weatherLoading, i, FALSE)
  /\ UNCHANGED <<globals, settingsVars, loaderVars, cur, alive, pc, polls, sTimer, loading, error,
                 activeLayer, viewerRef, lastSwitch, fetchCount>>

\* fetchWeatherData after its await: the request settles
FetchSettle(i, f, ok) ==
  /\ f \in fetches[i]
  /\ fetches' = [fetches EXCEPT ![i] = @ \ {f}]
  /\ IF ok
     THEN /\ weatherData' = SetState(weatherData, i, f.loc)
          /\ viewers' = AddWeatherMarker(i, f).vs
          /\ weatherEntityRef' = [weatherEntityRef EXCEPT ![i] = AddWeatherMarker(i, f).ref]
          /\ weatherError' = weatherError
     ELSE /\ weatherError' = SetState(weatherError, i, "failed")
          /\ UNCHANGED <<weatherData, viewers, weatherEntityRef>>
  /\ weatherLoading' = SetState(weatherLoading, i, FALSE)
  /\ UNCHANGED <<globals, settingsVars, loaderVars, cur, alive, pc, polls, sTimer, loading, error,
                 activeLayer, viewerRef, lastSwitch, fetchCount>>

\* the LEFT_CLICK handler that bootstrap registers on the viewer
GlobeClick(i, loc) ==
  /\ \E v \in LiveViewers : viewers[v].owner = i /\ viewers[v].handler
  /\ fetchCount[i] < MaxFetches
  /\ FetchWeatherData(i, loc)
  /\ UNCHANGED <<globals, settingsVars, loaderVars, pageVars>>

\* --------------------------------------------------------------- bootstrap
NewViewer(i, ls, h) ==
  [owner |-> i, destroyed |-> FALSE, destroys |-> 0, layers |-> ls,
   entities |-> {}, material |-> NULL, handler |-> h, height |-> 0,
   contextLost |-> FALSE]

\* the imagery the constructor is given
CtorLayers ==
  CASE variant = "A" -> <<[Layer("NaturalEarthII", "base", 10) EXCEPT !.by = "ctor"]>>
    [] variant = "C" -> <<[Layer("GIBS", "base", 10) EXCEPT !.by = "ctor"]>>
    [] variant = "S" -> <<[Layer("default", "base", 10) EXCEPT !.by = "ctor"]>>
    [] OTHER -> <<>>

\* a capability check that always answers yes
IsWebGLSupportedAlways == TRUE

IsWebGLSupported == webgl

\* a container reference that outlives the unmount
ContainerAlways(i) == TRUE

\* cesiumContainerRef.current of variants A and C: the div is always rendered
ContainerPresent(i) == alive[i]

\* setError(..); setLoading(false)
Fail(i, e) ==
  /\ error' = SetState(error, i, e)
  /\ loading' = SetState(loading, i, FALSE)

\* the try block of variants A and C that builds the viewer
BootAC(i, thr) ==
  LET vs0 == IF LiveRef(i) THEN Destroy(viewers, viewerRef[i]) ELSE viewers
      ref0 == IF LiveRef(i) /\ variant = "A" THEN NoViewer ELSE viewerRef[i]
  IN IF thr = "ctor"
     THEN /\ viewers' = vs0
          /\ viewerRef' = [viewerRef EXCEPT ![i] = ref0]
          /\ Fail(i, "init")
          /\ UNCHANGED weatherVars
     ELSE /\ viewers' = Append(vs0, NewViewer(i, CtorLayers, thr = "none"))
          /\ viewerRef' = [viewerRef EXCEPT ![i] = Len(viewers) + 1]
          /\ IF thr = "post"
             THEN Fail(i, "init") /\ UNCHANGED weatherVars
             ELSE /\ FetchWeatherData(i, DefaultLoc)
                  /\ loading' = SetState(loading, i, FALSE)
                  /\ error' = error

\* initCesium of variants A and C from the capability check on
ChecksAC(i, thr) ==
  IF ~IsWebGLSupported
  THEN Fail(i, "webgl") /\ UNCHANGED <<viewers, viewerRef, weatherVars>>
  ELSE IF ~ContainerPresent(i)
  THEN Fail(i, "container") /\ UNCHANGED <<viewers, viewerRef, weatherVars>>
  ELSE IF thr = "token"
  THEN Fail(i, "token") /\ UNCHANGED <<viewers, viewerRef, weatherVars>>
  ELSE BootAC(i, thr)

\* the 100 ms timer of variant A
InitTimerA(i, thr) ==
  /\ variant = "A" /\ pc[i] = "timer"
  /\ pc' = [pc EXCEPT ![i] = "done"]
  /\ IF ~cesium
     THEN Fail(i, "nolib") /\ UNCHANGED <<viewers, viewerRef, weatherVars>>
     ELSE ChecksAC(i, thr)
  /\ UNCHANGED <<globals, settingsVars, loaderVars, cur, alive, polls, sTimer, activeLayer, lastSwitch>>

\* isCesiumLoaded() of variant C
IsCesiumLoaded == cesium /\ cesiumLoaded

\* the 100 ms timer of variant C: waitForCesium returns at once when the
\* library is loaded or the readiness promise has settled, else it waits
InitTimerC(i, thr) ==
  /\ variant = "C" /\ pc[i] = "timer"
  /\ IF IsCesiumLoaded \/ cesiumReady = "resolved"
     THEN pc' = [pc EXCEPT ![i] = "done"] /\ ChecksAC(i, thr)
     ELSE IF cesiumReady = "rejected"
     THEN /\ pc' = [pc EXCEPT ![i] = "done"]
          /\ Fail(i, "nolib") /\ UNCHANGED <<viewers, viewerRef, weatherVars>>
     ELSE /\ pc' = [pc EXCEPT ![i] = "waitReady"]
          /\ UNCHANGED <<loading, error, viewers, viewerRef, weatherVars>>
  /\ UNCHANGED <<globals, settingsVars, loaderVars, cur, alive, polls, sTimer, activeLayer, lastSwitch>>

\* variant C resumes when window.CESIUM_READY settles
ReadySettledC(i, thr) ==
  /\ variant = "C" /\ pc[i] = "waitReady"
  /\ cesiumReady # "pending"
  /\ pc' = [pc EXCEPT ![i] = "done"]
  /\ IF cesiumReady = "resolved"
     THEN ChecksAC(i, thr)
     ELSE Fail(i, "nolib") /\ UNCHANGED <<viewers, viewerRef, weatherVars>>
  /\ UNCHANGED <<globals, settingsVars, loaderVars, cur, alive, polls, sTimer, activeLayer, lastSwitch>>

\* --------------------------------------------------------------- variant B
\* cesiumContainerRef.current of variant B: the div is rendered while !error
ContainerPresentB(i) == alive[i] /\ error[i] = NULL

\* initCesium of variant B after the wait loop; cz is window.Cesium then
ProceedB(i, cz, thr) ==
  IF ~cz
  THEN Fail(i, "nolib") /\ UNCHANGED <<viewers, viewerRef>>
  ELSE IF thr = "token"
  THEN Fail(i, "init") /\ UNCHANGED <<viewers, viewerRef>>
  ELSE IF ContainerPresentB(i) /\ viewerRef[i] = NoViewer
  THEN IF thr = "ctor"
       THEN Fail(i, "init") /\ UNCHANGED <<viewers, viewerRef>>
       ELSE /\ viewers' = Append(viewers, NewViewer(i, CtorLayers, FALSE))
            /\ viewerRef' = [viewerRef EXCEPT ![i] = Len(viewers) + 1]
            /\ IF thr = "post"
               THEN Fail(i, "init")
               ELSE loading' = SetState(loading, i, FALSE) /\ error' = error
  ELSE UNCHANGED <<loading, error, viewers, viewerRef>>

\* the wait loop of variant B is entered: it is left at once when the library
\* is there, else the first 100 ms sleep starts
AfterWaitB(i, cz, thr) ==
  IF cz \/ MaxPollB = 0
  THEN pc' = [pc EXCEPT ![i] = "done"] /\ ProceedB(i, cz, thr)
  ELSE pc' = [pc EXCEPT ![i] = "poll"] /\ UNCHANGED <<loading, error, viewers, viewerRef>>

\* the 100 ms timer of variant B
InitTimerB(i, thr) ==
  /\ variant = "B" /\ pc[i] = "timer"
  /\ IF ~IsWebGLSupported
     THEN /\ pc' = [pc EXCEPT ![i] = "done"]
          /\ Fail(i, "webgl")
          /\ UNCHANGED <<viewers, viewerRef, scripts>>
     ELSE IF ~cesium
     THEN /\ pc' = [pc EXCEPT ![i] = "scriptWait"]
          /\ scripts' = Append(scripts, Script("pageB", i))
          /\ UNCHANGED <<loading, error, viewers, viewerRef>>
     ELSE AfterWaitB(i, cesium, thr) /\ scripts' = scripts
  /\ UNCHANGED <<globals, settingsVars, cesium, cesiumLoaded, cesiumReady, loadTimers, loadEvent,
                 cur, alive, polls, sTimer, activeLayer, lastSwitch, weatherVars>>

\* onload of the script variant B injected
PageScriptLoadB(k, def, thr) ==
  /\ k \in DOMAIN scripts
  /\ scripts[k].src = "pageB" /\ scripts[k].st = "loading"
  /\ cesium' = (cesium \/ def)
  /\ scripts' = [scripts EXCEPT ![k].st = "done"]
  /\ IF pc[scripts[k].owner] = "scriptWait"
     THEN AfterWaitB(scripts[k].owner, cesium', thr)
     ELSE UNCHANGED <<pc, loading, error, viewers, viewerRef>>
  /\ UNCHANGED <<globals, settingsVars, cesiumLoaded, cesiumReady, loadTimers, loadEvent,
                 cur, alive, polls, sTimer, activeLayer, lastSwitch, weatherVars>>

\* onerror of the script variant B injected
PageScriptErrorB(k) ==
  /\ k \in DOMAIN scripts
  /\ scripts[k].src = "pageB" /\ scripts[k].st = "loading"
  /\ scripts' = [scripts EXCEPT ![k].st = "done"]
  /\ IF pc[scripts[k].owner] = "scriptWait"
     THEN /\ pc' = [pc EXCEPT ![scripts[k].owner] = "done"]
          /\ Fail(scripts[k].owner, "script")
     ELSE UNCHANGED <<pc, loading, error>>
  /\ UNCHANGED <<globals, settingsVars, cesium, cesiumLoaded, cesiumReady, loadTimers, loadEvent,
                 cur, alive, polls, sTimer, activeLayer, lastSwitch, weatherVars,
                 viewers, viewerRef>>

\* the 10 s timeout of the script wait of variant B
ScriptTimeoutB(i) ==
  /\ variant = "B" /\ pc[i] = "scriptWait"
  /\ pc' = [pc EXCEPT ![i] = "done"]
  /\ Fail(i, "script")
  /\ UNCHANGED <<globals, settingsVars, loaderVars, cur, alive, polls, sTimer, activeLayer,
                 lastSwitch, weatherVars, viewers, viewerRef>>

\* one 100 ms sleep of the wait loop of variant B ends
PollB(i, thr) ==
  /\ variant = "B" /\ pc[i] = "poll"
  /\ polls' = [polls EXCEPT ![i] = @ + 1]
  /\ IF cesium \/ polls[i] + 1 >= MaxPollB
     THEN pc' = [pc EXCEPT ![i] = "done"] /\ ProceedB(i, cesium, thr)
     ELSE UNCHANGED <<pc, loading, error, viewers, viewerRef>>
  /\ UNCHANGED <<globals, settingsVars, loaderVars, cur, alive, sTimer, activeLayer, lastSwitch,
                 weatherVars>>

\* --------------------------------------------------------------- variant S
\* cesiumContainerRef.current of variant S: the div is rendered only when the
\* page is neither loading nor showing the stylized fallback
ContainerPresentS(i, ld, er) == alive[i] /\ ~ld /\ er = NULL /\ webgl

\* cleanup of an effect run of variant S removes the script it injected
RemoveScripts(sc, i) ==
  [k \in DOMAIN sc |-> IF sc[k].owner = i THEN [sc[k] EXCEPT !.inDoc = FALSE] ELSE sc[k]]

\* initCesium of variant S, called with loading ld, error er, window.Cesium cz
InitCesiumS(i, ld, er, cz, thr) ==
  IF ~ContainerPresentS(i, ld, er)
  THEN UNCHANGED <<loading, error, viewers, viewerRef>>
  ELSE IF ~cz \/ thr \in {"token", "ctor"}
  THEN Fail(i, "init") /\ UNCHANGED <<viewers, viewerRef>>
  ELSE /\ viewers' = Append(viewers, NewViewer(i, CtorLayers, FALSE))
       /\ IF thr = "post"
          THEN Fail(i, "init") /\ viewerRef' = viewerRef
          ELSE /\ viewerRef' = [viewerRef EXCEPT ![i] = Len(viewers) + 1]
               /\ UNCHANGED <<loading, error>>

\* setLoading(false) changes the dependency of the effect of variant S: its
\* cleanup runs and the effect runs again, now with loading false and error er
RerunS(i, er, sc) ==
  /\ error' = [error EXCEPT ![i] = er]
  /\ loading' = [loading EXCEPT ![i] = FALSE]
  /\ sTimer' = [sTimer EXCEPT ![i] = "capFalse"]
  /\ scripts' = IF cesium THEN RemoveScripts(sc, i)
                ELSE Append(RemoveScripts(sc, i), Script("pageS", i))
  /\ UNCHANGED <<viewers, viewerRef>>

\* the effect of variant S at mount of instance i; loading is true then, so
\* the initCesium it calls when the library is there returns at its first line
RunEffectS(i) ==
  IF ~IsWebGLSupported
  THEN /\ error' = [error EXCEPT ![i] = "webgl"]
       /\ loading' = [loading EXCEPT ![i] = FALSE]
       /\ UNCHANGED <<sTimer, scripts>>
  ELSE /\ sTimer' = [sTimer EXCEPT ![i] = "capTrue"]
       /\ scripts' = IF cesium THEN scripts ELSE Append(scripts, Script("pageS", i))
       /\ UNCHANGED <<loading, error>>

\* the 5 s timer of variant S
TimerS(i) ==
  /\ variant = "S" /\ sTimer[i] # "none"
  /\ IF sTimer[i] = "capTrue"
     THEN RerunS(i, "timeout", scripts)
     ELSE /\ sTimer' = [sTimer EXCEPT ![i] = "none"]
          /\ UNCHANGED <<loading, error, scripts, viewers, viewerRef>>
  /\ UNCHANGED <<globals, settingsVars, cesium, cesiumLoaded, cesiumReady, loadTimers, loadEvent,
                 cur, alive, pc, polls, activeLayer, lastSwitch, weatherVars>>

\* onload of a script variant S injected
PageScriptLoadS(k, def, thr) ==
  /\ k \in DOMAIN scripts
  /\ scripts[k].src = "pageS" /\ scripts[k].st = "loading"
  /\ cesium' = (cesium \/ def)
  /\ scripts' = [scripts EXCEPT ![k].st = "done"]
  /\ InitCesiumS(scripts[k].owner, loading[scripts[k].owner],
                 error[scripts[k].owner], cesium', thr)
  /\ UNCHANGED <<globals, settingsVars, cesiumLoaded, cesiumReady, loadTimers, loadEvent,
                 cur, alive, pc, polls, sTimer, activeLayer, lastSwitch, weatherVars>>

\* onerror of a script variant S injected
PageScriptErrorS(k) ==
  /\ k \in DOMAIN scripts
  /\ scripts[k].src = "pageS" /\ scripts[k].st = "loading"
  /\ IF alive[scripts[k].owner] /\ loading[scripts[k].owner]
     THEN RerunS(scripts[k].owner, "script", [scripts EXCEPT ![k].st = "done"])
     ELSE /\ scripts' = [scripts EXCEPT ![k].st = "done"]
          /\ error' = SetState(error, scripts[k].owner, "script")
          /\ UNCHANGED <<loading, sTimer, viewers, viewerRef>>
  /\ UNCHANGED <<globals, settingsVars, cesium, cesiumLoaded, cesiumReady, loadTimers, loadEvent,
                 cur, alive, pc, polls, activeLayer, lastSwitch, weatherVars>>

\* --------------------------------------------------------------- variant T
\* the timeout-only SimpleEarthViewer of unnamed/part_010: it loads no library
\* and builds no viewer.  Its state cesiumLoaded starts false and the only
\* call of its setter passes false
CesiumLoadedT(i) == FALSE

\* an effect of variant T that arms the timer and forgets the WebGL test
RunEffectNoCheckT(i) ==
  /\ sTimer' = [sTimer EXCEPT ![i] = "armed"]
  /\ UNCHANGED <<loading, error>>

\* the mount effect of variant T: the 3 s timer is armed, then getContext
\* answers; without a context the timer is cleared and the page gives up
RunEffectT(i) ==
  IF ~webgl
  THEN /\ error' = [error EXCEPT ![i] = "true"]
       /\ loading' = [loading EXCEPT ![i] = FALSE]
       /\ sTimer' = sTimer
  ELSE /\ sTimer' = [sTimer EXCEPT ![i] = "armed"]
       /\ UNCHANGED <<loading, error>>

\* the 3 s timer of variant T
TimerT(i) ==
  /\ variant = "T" /\ sTimer[i] = "armed"
  /\ sTimer' = [sTimer EXCEPT ![i] = "none"]
  /\ loading' = SetState(loading, i, FALSE)
  /\ error' = SetState(error, i, "true")
  /\ UNCHANGED <<globals, settingsVars, loaderVars, cur, alive, pc, polls, activeLayer, viewerRef,
                 viewers, lastSwitch, weatherVars>>

\* ------------------------------------------------------- mount and unmount
\* the router mounts the page: state is fresh, the mount effect runs
Mount ==
  /\ cur < MaxMounts
  /\ \A j \in Inst : ~alive[j]
  /\ cur' = cur + 1
  /\ alive' = [alive EXCEPT ![cur + 1] = TRUE]
  /\ IF variant = "S"
     THEN /\ RunEffectS(cur + 1)
          /\ pc' = [pc EXCEPT ![cur + 1] = "done"]
     ELSE IF variant = "T"
     THEN /\ RunEffectT(cur + 1)
          /\ pc' = [pc EXCEPT ![cur + 1] = "done"]
          /\ scripts' = scripts
     ELSE /\ pc' = [pc EXCEPT ![cur + 1] = "timer"]
          /\ UNCHANGED <<loading, error, sTimer, scripts>>
  /\ UNCHANGED <<globals, settingsVars, cesium, cesiumLoaded, cesiumReady, loadTimers, loadEvent,
                 polls, activeLayer, lastSwitch, weatherVars, viewers, viewerRef>>

\* a cleanup that leaves the viewer alone
CleanupViewersNoDestroy(i) == viewers

\* a cleanup that destroys the viewer and then calls destroy() once more
\* through a stored handle, without asking isDestroyed()
CleanupViewersTwice(i) ==
  IF LiveRef(i) THEN Destroy(Destroy(viewers, viewerRef[i]), viewerRef[i]) ELSE viewers

\* the viewers after the cleanup of the mount effect
CleanupViewers(i) ==
  IF LiveRef(i) THEN Destroy(viewers, viewerRef[i]) ELSE viewers

\* the page is unmounted: the cleanup of its effect runs and React drops the
\* state of the component (the refs live on in the closures that hold them)
Unmount(i) ==
  /\ alive[i]
  /\ alive' = [alive EXCEPT ![i] = FALSE]
  /\ pc' = [pc EXCEPT ![i] = IF @ = "timer" THEN "cancelled" ELSE @]
  /\ sTimer' = [sTimer EXCEPT ![i] = "none"]
  /\ scripts' = IF variant = "S" THEN RemoveScripts(scripts, i) ELSE scripts
  /\ viewers' = CleanupViewers(i)
  /\ viewerRef' = [viewerRef EXCEPT ![i] = IF LiveRef(i) THEN NoViewer ELSE @]
  /\ activeLayer' = [activeLayer EXCEPT ![i] = "Satellite"]
  /\ weatherLoading' = [weatherLoading EXCEPT ![i] = FALSE]
  /\ weatherError' = [weatherError EXCEPT ![i] = NULL]
  /\ weatherData' = [weatherData EXCEPT ![i] = NULL]
  /\ lastSwitch' = [lastSwitch EXCEPT ![i] = NoSwitch]
  /\ UNCHANGED <<globals, settingsVars, cesium, cesiumLoaded, cesiumReady, loadTimers, loadEvent,
                 cur, polls, loading, error, weatherEntityRef, fetches, fetchCount>>

\* -------------------------------------------------------------- layer panel
\* WeatherMapOptions is rendered: always in A and C, while !error in B
PanelShown(i) ==
  /\ alive[i]
  /\ variant \in {"A", "B", "C"}
  /\ variant = "B" => error[i] = NULL

\* a switch handler that clears the page error when it succeeds
SwitchErrorClearing(er, i, threw) ==
  IF threw THEN SetState(er, i, "switch") ELSE SetState(er, i, NULL)

\* setError of the catch block of the switch handler
SwitchError(er, i, threw) == IF threw THEN SetState(er, i, "switch") ELSE er

\* a switch handler that updates the selector before it tests the viewer
SwitchLayerCallSelectsFirst(i, cat, F) ==
  /\ PanelShown(i)
  /\ activeLayer' = SetState(activeLayer, i, cat)
  /\ IF ~SwitchGuard(i)
     THEN /\ lastSwitch' = [lastSwitch EXCEPT ![i] = [cat |-> cat, applied |-> FALSE, baseFailed |-> FALSE]]
          /\ UNCHANGED <<viewers, error>>
     ELSE LET v == viewerRef[i]
              r == SwitchLayers(viewers[v].layers, viewers[v].material, cat, F)
          IN /\ viewers' = [viewers EXCEPT ![v].layers = r.layers, ![v].material = r.material]
             /\ error' = SwitchError(error, i, r.err)
             /\ lastSwitch' = [lastSwitch EXCEPT ![i] =
                                 [cat |-> cat, applied |-> TRUE, baseFailed |-> "base" \in F]]
  /\ UNCHANGED <<globals, settingsVars, loaderVars, cur, alive, pc, polls, sTimer, loading,
                 viewerRef, weatherVars>>

\* the user picks a category in the layer panel
SwitchLayerCall(i, cat, F) ==
  /\ PanelShown(i)
  /\ IF ~SwitchGuard(i)
     THEN /\ lastSwitch' = [lastSwitch EXCEPT ![i] = [cat |-> cat, applied |-> FALSE, baseFailed |-> FALSE]]
          /\ UNCHANGED <<activeLayer, viewers, error>>
     ELSE LET v == viewerRef[i]
              r == SwitchLayers(viewers[v].layers, viewers[v].material, cat, F)
          IN /\ activeLayer' = SetState(activeLayer, i, cat)
             /\ viewers' = [viewers EXCEPT ![v].layers = r.layers, ![v].material = r.material]
             /\ error' = SwitchError(error, i, r.err)
             /\ lastSwitch' = [lastSwitch EXCEPT ![i] =
                                 [cat |-> cat, applied |-> TRUE, baseFailed |-> "base" \in F]]
  /\ UNCHANGED <<globals, settingsVars, loaderVars, cur, alive, pc, polls, sTimer, loading,
                 viewerRef, weatherVars>>

\* -------------------------------------------------------------------- next
\* the loader script and the scripts the pages inject
NextLoader ==
  \/ \E k \in 1..Len(scripts), def \in BOOLEAN : LoaderScriptLoad(k, def)
  \/ \E k \in 1..Len(scripts) : LoaderScriptError(k)
  \/ LoaderTimeout
  \/ WindowLoad
  \/ \E k \in 1..Len(scripts), def \in BOOLEAN, thr \in BootThrows : PageScriptLoadB(k, def, thr)
  \/ \E k \in 1..Len(scripts) : PageScriptErrorB(k)
  \/ \E k \in 1..Len(scripts), def \in BOOLEAN, thr \in BootThrows : PageScriptLoadS(k, def, thr)
  \/ \E k \in 1..Len(scripts) : PageScriptErrorS(k)

\* mount, unmount and the initialization of the page
NextPage ==
  \/ Mount
  \/ \E i \in Inst : Unmount(i)
  \/ \E i \in Inst, thr \in BootThrows : InitTimerA(i, thr)
  \/ \E i \in Inst, thr \in BootThrows : InitTimerC(i, thr)
  \/ \E i \in Inst, thr \in BootThrows : ReadySettledC(i, thr)
  \/ \E i \in Inst, thr \in BootThrows : InitTimerB(i, thr)
  \/ \E i \in Inst : ScriptTimeoutB(i)
  \/ \E i \in Inst, thr \in BootThrows : PollB(i, thr)
  \/ \E i \in Inst : TimerS(i)

\* the categories and throw points the life-cycle behaviours switch with
LifeCats == {"Satellite", "Temperature"}
LifeFails == {{}, {"base"}}

\* the life cycle of the page: loader, mounts, initialization, the initial
\* weather request and layer switches
Next ==
  \/ NextLoader
  \/ NextPage
  \/ \E i \in Inst : \E f \in fetches[i], ok \in BOOLEAN : FetchSettle(i, f, ok)
  \/ \E i \in Inst, cat \in LifeCats, F \in LifeFails : SwitchLayerCall(i, cat, F)

Spec == Init /\ [][Next]_vars

\* the library is loaded and WebGL is there: the page reaches a live viewer
InitReady == Init /\ cesium /\ webgl /\ variant # "S"

\* layer switches of every category with every throw point
NextLayers ==
  \/ Mount
  \/ \E i \in Inst : Unmount(i)
  \/ \E i \in Inst, thr \in BootThrows : InitTimerA(i, thr)
  \/ \E i \in Inst, thr \in BootThrows : InitTimerC(i, thr)
  \/ \E i \in Inst, thr \in BootThrows : InitTimerB(i, thr)
  \/ \E i \in Inst, cat \in Catalog, F \in FailSets : SwitchLayerCall(i, cat, F)

SpecLayers == InitReady /\ [][NextLayers]_vars

\* weather requests of the initial location and of globe clicks
NextWeather ==
  \/ Mount
  \/ \E i \in Inst : Unmount(i)
  \/ \E i \in Inst, thr \in BootThrows : InitTimerA(i, thr)
  \/ \E i \in Inst, thr \in BootThrows : InitTimerC(i, thr)
  \/ \E i \in Inst, loc \in ClickLocs : GlobeClick(i, loc)
  \/ \E i \in Inst : \E f \in fetches[i], ok \in BOOLEAN : FetchSettle(i, f, ok)

\* variant B never calls its fetchWeatherData
InitWeather == InitReady /\ variant # "B"

SpecWeather == InitWeather /\ [][NextWeather]_vars

\* ------------------------------------------------------------------ claims
\* the layer set of the viewer of page instance i
LayerSet(i) == viewers[viewerRef[i]].layers

\* C1: after a layer-switch call on a live viewer the layer set has one or
\* two entries and entry 0 is the base layer that this call added for the
\* category, or the fallback base layer when adding the primary one failed
C1_BaseLayerOfCall ==
  \A i \in Inst : (LiveRef(i) /\ lastSwitch[i].applied) =>
    /\ Len(LayerSet(i)) \in 1..2
    /\ LayerSet(i)[1].by = "cur"
    /\ LayerSet(i)[1].role = IF lastSwitch[i].baseFailed THEN "fallback" ELSE "base"

\* C2: whatever the order in which pending weather requests settle, a viewer
\* never carries more than one weather marker
C2_AtMostOneMarker ==
  \A v \in DOMAIN viewers : Cardinality(viewers[v].entities) <= 1

\* two requests were issued, both succeeded, and the one issued first settled
\* last: its marker replaced the marker of the second
C2_Witness ==
  \E i \in Inst :
    /\ LiveRef(i) /\ fetchCount[i] = 2 /\ fetches[i] = {}
    /\ weatherError[i] = NULL
    /\ weatherEntityRef[i].id = 1
    /\ viewers[viewerRef[i]].entities = {weatherEntityRef[i]}

\* C3: at most one viewer is live (constructed and not destroyed)
C3_AtMostOneLiveViewer == Cardinality(LiveViewers) <= 1

\* the page was mounted again: its viewer is live, the viewer of the earlier
\* mount is destroyed
C3_Witness ==
  \E i \in Inst : LiveRef(i) /\ \E v \in DOMAIN viewers : viewers[v].destroyed

\* C4: every live viewer belongs to a mounted page instance: unmount leaves no
\* live viewer and no callback that runs after the unmount constructs one
C4_NoViewerAfterUnmount ==
  \A v \in DOMAIN viewers : ~viewers[v].destroyed => alive[viewers[v].owner]

\* the initialization of an unmounted instance resumed after the unmount with
\* the library loaded and WebGL there, and its weather requests have settled
C4_Witness ==
  \E i \in Inst :
    /\ variant = "C" /\ i <= cur /\ ~alive[i] /\ pc[i] = "done" /\ fetches[i] = {}
    /\ error[i] = NULL /\ loading[i]
    /\ webgl /\ cesium /\ cesiumReady = "resolved"

\* C5: however many load attempts are made, the document gets at most one
\* script tag for the library
C5_OneScriptTag == Len(scripts) <= 1

\* C6: when the WebGL check answers no, no viewer is ever constructed, and a
\* mounted page whose initialization has run shows its error view: error is
\* set and loading is off
C6_NoWebGLNoViewer ==
  ~webgl =>
    /\ viewers = <<>>
    /\ \A i \in Inst : (alive[i] /\ pc[i] = "done") => (error[i] # NULL /\ ~loading[i])
    /\ \A i \in Inst : (alive[i] /\ loading[i]) => pc[i] \in {"timer", "waitReady"}

\* WebGL is missing and a mounted page has run its capability check
C6_Witness ==
  ~webgl /\ \E i \in Inst : alive[i] /\ pc[i] = "done" /\ error[i] = "webgl"

\* C7: when bootstrap has failed the viewer reference of the page is null
C7_FailedBootLeavesNull ==
  \A i \in Inst : (alive[i] /\ error[i] = "init") => viewerRef[i] = NoViewer

\* C8: while the page stays mounted an error that is set stays set, and no
\* viewer is constructed once it is set
C8_ErrorTerminal ==
  [][\A i \in Inst : (alive[i] /\ alive'[i] /\ error[i] # NULL) =>
        (error'[i] # NULL /\ Len(viewers') = Len(viewers))]_vars

\* the script wait of a mounted page failed, the library arrived afterwards,
\* and the page still has its error and no viewer
C8_Witness ==
  \E i \in Inst :
    /\ alive[i] /\ error[i] = "script" /\ pc[i] = "done"
    /\ cesium /\ viewerRef[i] = NoViewer

\* C9: after a layer-switch call on a live viewer the layer set is not empty
C9_LayerSetNonEmpty ==
  \A i \in Inst : (LiveRef(i) /\ lastSwitch[i].applied) => Len(LayerSet(i)) >= 1

\* C10: a layer-switch call whose primary provider could not be added leaves
\* the active-layer selector at its previous value
C10_SelectorKeptOnFailure ==
  [][\A i \in Inst : (alive'[i] /\ activeLayer'[i] # activeLayer[i]) =>
        ~lastSwitch'[i].baseFailed]_vars

\* the page is Ready: mounted, not loading, no error, a live viewer
Ready(i) == alive[i] /\ ~loading[i] /\ error[i] = NULL /\ LiveRef(i)

\* C11: while the page stays mounted, a Ready page stays Ready: no failure of
\* a layer switch or of a weather request sets the page error or costs the
\* page its live viewer
C11_FailuresStayLocal ==
  [][\A i \in Inst : (Ready(i) /\ alive'[i]) => Ready(i)']_vars

\* the layer set a switch to cat with no throw leaves on the viewer of instance i
SwitchedTo(i, cat) ==
  SwitchLayers(LayerSet(i), viewers[viewerRef[i]].material, cat, {}).layers

\* C12: on a live viewer whose layer set holds the Satellite base layer, a
\* switch to a weather-style category that meets no throw ends with exactly
\* two entries: the base layer of the call at index 0 and an overlay whose
\* alpha lies strictly between 0 and 1 (tenths 1..9) at index 1
C12_WeatherBasePlusOverlay ==
  \A i \in Inst :
    (LiveRef(i) /\ lastSwitch[i].applied /\ lastSwitch[i].cat = "Satellite"
       /\ ~lastSwitch[i].baseFailed) =>
      \A cat \in WeatherStyle :
        /\ Len(SwitchedTo(i, cat)) = 2
        /\ SwitchedTo(i, cat)[1].role = "base" /\ SwitchedTo(i, cat)[1].by = "cur"
        /\ SwitchedTo(i, cat)[2].role = "overlay"
        /\ SwitchedTo(i, cat)[2].alpha \in 1..9

\* the overlay layers of a layer set
Overlays(ls) == {k \in DOMAIN ls : ls[k].role = "overlay"}

\* C13: after a switch to Satellite, Live or HD on a live viewer the globe
\* carries no weather tint and the layer set holds at most one overlay,
\* whatever category was switched to before
C13_NoStaleOverlayOrTint ==
  \A i \in Inst :
    (LiveRef(i) /\ lastSwitch[i].applied
       /\ lastSwitch[i].cat \in {"Satellite", "Live", "HD"}) =>
      /\ viewers[viewerRef[i]].material = NULL
      /\ Cardinality(Overlays(LayerSet(i))) <= 1

\* C14: a step in which a weather request of a mounted page fails leaves
\* weatherError set and weatherLoading false, and leaves the marker reference
\* and the entities of every viewer as they were before the step
C14_FailedFetchKeepsMarker ==
  [][\A i \in Inst : \A f \in fetches[i] :
       (alive[i] /\ FetchSettle(i, f, FALSE)) =>
         /\ weatherError'[i] # NULL
         /\ ~weatherLoading'[i]
         /\ weatherEntityRef'[i] = weatherEntityRef[i]
         /\ \A v \in DOMAIN viewers :
              /\ v \in DOMAIN viewers'
              /\ viewers'[v].entities = viewers[v].entities]_vars

\* a request failed on a page whose viewer carries the marker of an earlier
\* request: the error is shown and the marker is still attached
C14_Witness ==
  \E i \in Inst :
    /\ LiveRef(i) /\ weatherError[i] = "failed" /\ ~weatherLoading[i]
    /\ fetchCount[i] = 2 /\ fetches[i] = {}
    /\ weatherEntityRef[i] # NoEntity
    /\ viewers[viewerRef[i]].entities = {weatherEntityRef[i]}

\* C15: the readiness signal changes at most once: CESIUM_LOADED never goes
\* back to false, and once CESIUM_READY is rejected CESIUM_LOADED never
\* becomes true
C15_ReadinessChangesOnce ==
  [][/\ cesiumLoaded => cesiumLoaded'
     /\ (cesiumReady = "rejected" /\ ~cesiumLoaded) => ~cesiumLoaded']_vars

\* instance i is in its library load/wait step: it waits for the readiness
\* promise, for its own script tag or in its poll loop
Waiting(i) == alive[i] /\ pc[i] \in {"waitReady", "scriptWait", "poll"}

\* C16: when the WebGL check fails no page instance waits for the library and
\* no page instance has injected a script tag
C16_NoWaitWithoutWebGL ==
  ~webgl => /\ \A i \in Inst : ~Waiting(i)
            /\ \A k \in DOMAIN scripts : scripts[k].owner = 0

\* timers fire and promise continuations run: every timer action and the
\* window load event are weakly fair; the network is not (a script may never
\* load or fail), and neither are the user and the router
Fairness ==
  /\ WF_vars(LoaderTimeout)
  /\ WF_vars(WindowLoad)
  /\ \A i \in Inst :
       /\ WF_vars(\E thr \in BootThrows : InitTimerA(i, thr))
       /\ WF_vars(\E thr \in BootThrows : InitTimerC(i, thr))
       /\ WF_vars(\E thr \in BootThrows : ReadySettledC(i, thr))
       /\ WF_vars(\E thr \in BootThrows : InitTimerB(i, thr))
       /\ WF_vars(ScriptTimeoutB(i))
       /\ WF_vars(\E thr \in BootThrows : PollB(i, thr))
       /\ WF_vars(TimerS(i))

\* the life cycle of the page with its timers and continuations scheduled
SpecLive == Init /\ [][Next]_vars /\ Fairness

\* instance i has left the loading states: a live viewer or the error state
Settled(i) == ~loading[i] /\ (LiveRef(i) \/ error[i] # NULL)

\* C17: with timers and continuations scheduled fairly, every mounted page is
\* eventually unmounted or leaves the loading states (loading false with a
\* live viewer or with the error set), whether or not the library ever loads
C17_LoadingEnds ==
  \A i \in Inst : alive[i] ~> (~alive[i] \/ Settled(i))

\* the library never became available: the readiness promise was rejected by
\* the timeout and the waiting page of variant C shows the error
C17_Witness ==
  \E i \in Inst :
    /\ variant = "C" /\ alive[i] /\ ~cesium /\ cesiumReady = "rejected"
    /\ \A k \in DOMAIN scripts : scripts[k].st = "loading"
    /\ ~loading[i] /\ error[i] = "nolib"

\* instance i is loading while WebGL is supported, the library is there and
\* the readiness promise has not been rejected
CanBoot(i) ==
  alive[i] /\ loading[i] /\ webgl /\ cesium /\ cesiumReady # "rejected"

\* C18: a page that is loading while the capability check passes and the
\* library is available eventually is Ready, unless it is unmounted or the
\* construction of the viewer throws
C18_ReachesReady ==
  \A i \in Inst :
    CanBoot(i) ~> (~alive[i] \/ Ready(i) \/ error[i] \in {"init", "token"})

\* C19: a page that is Ready and on which the user has not switched layers
\* yet holds a base imagery layer at index 0 of its layer set and its active
\* layer selector is the default category 'Satellite'
C19_DefaultLayerAtReady ==
  \A i \in Inst :
    (Ready(i) /\ lastSwitch[i] = NoSwitch) =>
      /\ Len(LayerSet(i)) >= 1
      /\ LayerSet(i)[1].role = "base"
      /\ activeLayer[i] = "Satellite"

\* C20: destroy() is called at most once on every viewer, over every sequence
\* of initialization, unmount and mounting again
C20_DestroyAtMostOnce ==
  \A v \in DOMAIN viewers : viewers[v].destroys <= 1

\* the page was mounted twice and unmounted twice: each of the two viewers
\* was destroyed by the cleanup of its mount, once
C20_Witness ==
  /\ Len(viewers) = 2
  /\ \A v \in DOMAIN viewers : viewers[v].destroyed /\ viewers[v].destroys = 1
  /\ viewers[1].owner # viewers[2].owner
  /\ \A i \in Inst : ~alive[i]

\* ------------------------------------------------------------------- zoom
\* the toolbar with the zoom buttons is rendered when !loading && !error
ToolbarShown(i) == alive[i] /\ ~loading[i] /\ error[i] = NULL

\* handleZoomIn (d = -1) and handleZoomOut (d = 1): the viewers they leave
HandleZoom(i, d) ==
  IF LiveRef(i)
  THEN [viewers EXCEPT ![viewerRef[i]].height = @ + d]
  ELSE viewers

\* the user presses a zoom button
Zoom(i, d) ==
  /\ ToolbarShown(i)
  /\ LiveRef(i) => viewers[viewerRef[i]].height + d \in -MaxZoom..MaxZoom
  /\ viewers' = HandleZoom(i, d)
  /\ UNCHANGED <<globals, settingsVars, loaderVars, cur, alive, pc, polls, sTimer, loading, error,
                 activeLayer, viewerRef, lastSwitch, weatherVars>>

\* the browser loses the WebGL context of the canvas of a live viewer
\* (webglcontextlost): no variant registers a listener, no page state changes
ContextLost(v) ==
  /\ v \in LiveViewers /\ ~viewers[v].contextLost
  /\ viewers' = [viewers EXCEPT ![v].contextLost = TRUE]
  /\ UNCHANGED <<globals, settingsVars, loaderVars, cur, alive, pc, polls, sTimer, loading, error,
                 activeLayer, viewerRef, lastSwitch, weatherVars>>

\* the browser restores the context (webglcontextrestored): no listener either
ContextRestored(v) ==
  /\ v \in LiveViewers /\ viewers[v].contextLost
  /\ viewers' = [viewers EXCEPT ![v].contextLost = FALSE]
  /\ UNCHANGED <<globals, settingsVars, loaderVars, cur, alive, pc, polls, sTimer, loading, error,
                 activeLayer, viewerRef, lastSwitch, weatherVars>>

\* the operations of the user on a page whose library is loaded, and the
\* context events of the browser
NextOps ==
  \/ Mount
  \/ \E i \in Inst : Unmount(i)
  \/ \E i \in Inst, thr \in BootThrows : InitTimerA(i, thr)
  \/ \E i \in Inst, thr \in BootThrows : InitTimerC(i, thr)
  \/ \E i \in Inst, thr \in BootThrows : InitTimerB(i, thr)
  \/ \E i \in Inst, cat \in LifeCats, F \in LifeFails : SwitchLayerCall(i, cat, F)
  \/ \E i \in Inst, d \in {-1, 1} : Zoom(i, d)
  \/ \E v \in DOMAIN viewers : ContextLost(v)
  \/ \E v \in DOMAIN viewers : ContextRestored(v)
  \/ \E i \in Inst : \E f \in fetches[i], ok \in BOOLEAN : FetchSettle(i, f, ok)

SpecOps == InitReady /\ [][NextOps]_vars

\* what the operations on the viewer must leave alone when it is not live
ViewerFrame ==
  /\ viewers' = viewers
  /\ activeLayer' = activeLayer
  /\ weatherEntityRef' = weatherEntityRef
  /\ error' = error

\* C21: a layer switch, a zoom or the marker update of a settled weather
\* request on a page whose viewer reference is null or destroyed changes
\* neither the viewers (layer sets, markers) nor the active layer selector
\* nor the marker reference, and sets no error
C21_NoOpsWithoutViewer ==
  [][\A i \in Inst : ~LiveRef(i) =>
       /\ (\E cat \in Catalog, F \in FailSets : SwitchLayerCall(i, cat, F)) => ViewerFrame
       /\ (\E d \in {-1, 1} : Zoom(i, d)) => ViewerFrame
       /\ \A f \in fetches[i] : FetchSettle(i, f, TRUE) => ViewerFrame]_vars

\* the user picked Temperature while the page had no viewer yet: the call
\* returned at its guard and the selector still says Satellite
C21_Witness ==
  \E i \in Inst :
    /\ alive[i] /\ ~LiveRef(i)
    /\ lastSwitch[i].cat = "Temperature" /\ ~lastSwitch[i].applied
    /\ activeLayer[i] = "Satellite"

\* ------------------------------------------------- the weather operation
\* fetchWeatherData called for a point on a mounted page, by any caller and
\* whatever the state of the viewer: the function tests weatherLoading only
FetchWeatherDataCall(i, loc) ==
  /\ alive[i]
  /\ fetchCount[i] < MaxFetches
  /\ FetchWeatherData(i, loc)
  /\ UNCHANGED <<globals, settingsVars, loaderVars, pageVars>>

\* the weather operation applied in every state of the page
NextFetch ==
  \/ Mount
  \/ \E i \in Inst : Unmount(i)
  \/ \E i \in Inst, thr \in BootThrows : InitTimerA(i, thr)
  \/ \E i \in Inst, thr \in BootThrows : InitTimerC(i, thr)
  \/ \E i \in Inst, loc \in ClickLocs : FetchWeatherDataCall(i, loc)
  \/ \E i \in Inst : \E f \in fetches[i], ok \in BOOLEAN : FetchSettle(i, f, ok)

SpecFetch == InitWeather /\ [][NextFetch]_vars

C23_ContextLossShowsError ==
  \A i \in Inst :
    (alive[i] /\ LiveRef(i) /\ viewers[viewerRef[i]].contextLost) => error[i] # NULL

\* category values that are not in the catalog of the panel: one that a
\* switcher has a case for, one that no switcher knows
OutsideCatalog == {"Clouds", "Terrain"}

C25_SetReplacedAsWhole ==
  \A i \in Inst :
    (LiveRef(i) /\ lastSwitch[i].applied) =>
      \A k \in DOMAIN LayerSet(i) : LayerSet(i)[k].by = "cur"

\* ------------------------------------ variant C without a loader script
\* the document carries no loader script: window.CESIUM_READY is undefined and
\* window.CESIUM_LOADED is never set; the library itself may be there
InitNoLoader ==
  /\ variant = "C" /\ loader = "none"
  /\ webgl \in BOOLEAN
  /\ cesium \in BOOLEAN
  /\ cesiumLoaded = FALSE
  /\ cesiumReady = "undefined"
  /\ scripts = <<>>
  /\ loadTimers = 0
  /\ loadEvent = "none"
  /\ cur = 0
  /\ alive = [i \in Inst |-> FALSE]
  /\ pc = [i \in Inst |-> "idle"]
  /\ polls = [i \in Inst |-> 0]
  /\ sTimer = [i \in Inst |-> "none"]
  /\ loading = [i \in Inst |-> TRUE]
  /\ error = [i \in Inst |-> NULL]
  /\ activeLayer = [i \in Inst |-> "Satellite"]
  /\ weatherLoading = [i \in Inst |-> FALSE]
  /\ weatherError = [i \in Inst |-> NULL]
  /\ weatherData = [i \in Inst |-> NULL]
  /\ viewerRef = [i \in Inst |-> NoViewer]
  /\ weatherEntityRef = [i \in Inst |-> NoEntity]
  /\ fetches = [i \in Inst |-> {}]
  /\ fetchCount = [i \in Inst |-> 0]
  /\ viewers = <<>>
  /\ lastSwitch = [i \in Inst |-> NoSwitch]
  /\ InitSettings

\* the 100 ms timer of variant C when window.CESIUM_READY is undefined:
\* waitForCesium starts its interval and its 10 s timeout
InitTimerCNoPromise(i, thr) ==
  /\ variant = "C" /\ pc[i] = "timer" /\ cesiumReady = "undefined"
  /\ IF IsCesiumLoaded
     THEN pc' = [pc EXCEPT ![i] = "done"] /\ ChecksAC(i, thr)
     ELSE /\ pc' = [pc EXCEPT ![i] = "pollC"]
          /\ UNCHANGED <<loading, error, viewers, viewerRef, weatherVars>>
  /\ UNCHANGED <<globals, settingsVars, loaderVars, cur, alive, polls, sTimer, activeLayer, lastSwitch>>

\* one tick of the interval of waitForCesium: resolve(true) when
\* isCesiumLoaded(), else nothing
PollC(i, thr) ==
  /\ variant = "C" /\ pc[i] = "pollC"
  /\ polls[i] < MaxPollB
  /\ polls' = [polls EXCEPT ![i] = @ + 1]
  /\ IF IsCesiumLoaded
     THEN pc' = [pc EXCEPT ![i] = "done"] /\ ChecksAC(i, thr)
     ELSE UNCHANGED <<pc, loading, error, viewers, viewerRef, weatherVars>>
  /\ UNCHANGED <<globals, settingsVars, loaderVars, cur, alive, sTimer, activeLayer, lastSwitch>>

\* the 10 s timeout of waitForCesium: the interval is cleared, resolve(false),
\* and initCesium reports that the library is not loaded
PollTimeoutC(i) ==
  /\ variant = "C" /\ pc[i] = "pollC"
  /\ pc' = [pc EXCEPT ![i] = "done"]
  /\ Fail(i, "nolib")
  /\ UNCHANGED <<globals, settingsVars, loaderVars, cur, alive, polls, sTimer, activeLayer,
                 lastSwitch, viewers, viewerRef, weatherVars>>

NextPoll ==
  \/ Mount
  \/ \E i \in Inst : Unmount(i)
  \/ \E i \in Inst, thr \in BootThrows : InitTimerCNoPromise(i, thr)
  \/ \E i \in Inst, thr \in BootThrows : PollC(i, thr)
  \/ \E i \in Inst : PollTimeoutC(i)

SpecPoll == InitNoLoader /\ [][NextPoll]_vars

\* C26: when there is no readiness promise, a mounted page whose wait has
\* ended reports that the library is missing exactly when the library is not
\* in the global namespace
C26_PollReportsLibrary ==
  \A i \in Inst :
    (alive[i] /\ pc[i] = "done") => ((error[i] = "nolib") <=> ~cesium)

\* the document carries one of the loader scripts and the router mounts
\* variant T
InitT ==
  /\ variant = "T" /\ loader \in {"public", "part000"}
  /\ webgl \in BOOLEAN
  /\ cesium \in BOOLEAN
  /\ cesiumLoaded = cesium
  /\ cesiumReady = IF cesium THEN "resolved" ELSE "pending"
  /\ scripts = IF ~cesium /\ loader = "part000" THEN LoadCesium(<<>>) ELSE <<>>
  /\ loadTimers = IF ~cesium /\ loader = "part000" THEN 1 ELSE 0
  /\ loadEvent = IF cesium /\ loader = "part000" THEN "none" ELSE "pending"
  /\ cur = 0
  /\ alive = [i \in Inst |-> FALSE]
  /\ pc = [i \in Inst |-> "idle"]
  /\ polls = [i \in Inst |-> 0]
  /\ sTimer = [i \in Inst |-> "none"]
  /\ loading = [i \in Inst |-> TRUE]
  /\ error = [i \in Inst |-> NULL]
  /\ activeLayer = [i \in Inst |-> "Satellite"]
  /\ weatherLoading = [i \in Inst |-> FALSE]
  /\ weatherError = [i \in Inst |-> NULL]
  /\ weatherData = [i \in Inst |-> NULL]
  /\ viewerRef = [i \in Inst |-> NoViewer]
  /\ weatherEntityRef = [i \in Inst |-> NoEntity]
  /\ fetches = [i \in Inst |-> {}]
  /\ fetchCount = [i \in Inst |-> 0]
  /\ viewers = <<>>
  /\ lastSwitch = [i \in Inst |-> NoSwitch]
  /\ InitSettings

NextT ==
  \/ Mount
  \/ \E i \in Inst : Unmount(i)
  \/ \E i \in Inst : TimerT(i)
  \/ \E k \in 1..Len(scripts), def \in BOOLEAN : LoaderScriptLoad(k, def)
  \/ \E k \in 1..Len(scripts) : LoaderScriptError(k)
  \/ WindowLoad
  \/ LoaderTimeout

SpecT == InitT /\ [][NextT]_vars

\* C27: in variant T a mounted page that is not loading has its error set or
\* its cesiumLoaded false, so it shows the fallback map and never the
\* 'Unexpected state' branch; without WebGL loading is false from the mount
\* on, and with WebGL loading is true exactly until the 3 s timer fires
C27_UnexpectedUnreachable ==
  \A i \in Inst : alive[i] =>
    /\ ~loading[i] => (error[i] # NULL \/ ~CesiumLoadedT(i))
    /\ ~webgl => ~loading[i]
    /\ webgl => (loading[i] <=> sTimer[i] = "armed")

\* with WebGL there, the 3 s timer of the mounted page has fired: loading is
\* false, error is set and the fallback map is shown
C27_Witness ==
  \E i \in Inst :
    /\ variant = "T" /\ alive[i] /\ webgl
    /\ ~loading[i] /\ error[i] = "true" /\ sTimer[i] = "none"

\* C28: once every weather request of a page with a live viewer has settled
\* and none of them left an error, the marker is the marker of the request
\* issued last and weatherData is the data of its location
C28_LatestRequestWins ==
  \A i \in Inst :
    (alive[i] /\ LiveRef(i) /\ fetchCount[i] >= 1 /\ fetches[i] = {}
       /\ weatherError[i] = NULL) =>
      /\ weatherEntityRef[i].id = fetchCount[i]
      /\ weatherData[i] = weatherEntityRef[i].loc

\* C29: a page has at most one weather request in flight, and while it is
\* mounted its weatherLoading is true exactly while a request is in flight
C29_OneFetchInFlight ==
  \A i \in Inst :
    /\ Cardinality(fetches[i]) <= 1
    /\ alive[i] => (weatherLoading[i] <=> fetches[i] # {})

\* ----------------------------------------------------------------- settings page
\* The settings page (part_008, and part_009 with more handlers) stays
\* mounted; time is counted in seconds and a timer runs its callback at
\* the second it is due, before time moves on.
SaveDelay == 3
Themes == {"dark", "light", "system"}

\* handleChange, handleNestedChange, handleCheckboxChange and
\* handleSelectChange: store the value and hide the notification
HandleChange(key, value) ==
  /\ settingsPage # "none"
  /\ settings' = [settings EXCEPT ![key] = value]
  /\ saved' = FALSE
  /\ savedAt' = NoSave
  /\ UNCHANGED <<settingsPage, saveTimers, now>>
  /\ UNCHANGED <<globals, loaderVars, pageVars, weatherVars>>

\* resetSettings of part_009: the defaults are stored, saved is not touched
ResetSettings ==
  /\ settingsPage = "part009"
  /\ settings' = DefaultSettings
  /\ savedAt' = NoSave
  /\ UNCHANGED <<settingsPage, saved, saveTimers, now>>
  /\ UNCHANGED <<globals, loaderVars, pageVars, weatherVars>>

\* handleSaveSettings: show the notification and start a 3 s timer; a
\* timer started by an earlier save is left running
HandleSaveSettings ==
  /\ settingsPage # "none"
  /\ saved' = TRUE
  /\ saveTimers' = saveTimers \cup {now + SaveDelay}
  /\ savedAt' = now
  /\ UNCHANGED <<settingsPage, settings, now>>
  /\ UNCHANGED <<globals, loaderVars, pageVars, weatherVars>>

\* the callback of a timer started by handleSaveSettings
SaveTimeout(due) ==
  /\ due \in saveTimers /\ due <= now
  /\ saveTimers' = saveTimers \ {due}
  /\ saved' = FALSE
  /\ UNCHANGED <<settingsPage, settings, now, savedAt>>
  /\ UNCHANGED <<globals, loaderVars, pageVars, weatherVars>>

\* one second passes; timers that are due run first
Tick ==
  /\ settingsPage # "none"
  /\ now < MaxTime
  /\ \A due \in saveTimers : due > now
  /\ now' = now + 1
  /\ UNCHANGED <<settingsPage, settings, saved, saveTimers, savedAt>>
  /\ UNCHANGED <<globals, loaderVars, pageVars, weatherVars>>

\* the router mounts one of the settings pages; no viewer page is mounted
InitSettingsPage ==
  /\ variant = "A" /\ loader = "public"
  /\ webgl = TRUE
  /\ cesium = TRUE
  /\ cesiumLoaded = TRUE
  /\ cesiumReady = "resolved"
  /\ scripts = <<>>
  /\ loadTimers = 0
  /\ loadEvent = "pending"
  /\ cur = 0
  /\ alive = [i \in Inst |-> FALSE]
  /\ pc = [i \in Inst |-> "idle"]
  /\ polls = [i \in Inst |-> 0]
  /\ sTimer = [i \in Inst |-> "none"]
  /\ loading = [i \in Inst |-> TRUE]
  /\ error = [i \in Inst |-> NULL]
  /\ activeLayer = [i \in Inst |-> "Satellite"]
  /\ weatherLoading = [i \in Inst |-> FALSE]
  /\ weatherError = [i \in Inst |-> NULL]
  /\ weatherData = [i \in Inst |-> NULL]
  /\ viewerRef = [i \in Inst |-> NoViewer]
  /\ weatherEntityRef = [i \in Inst |-> NoEntity]
  /\ fetches = [i \in Inst |-> {}]
  /\ fetchCount = [i \in Inst |-> 0]
  /\ viewers = <<>>
  /\ lastSwitch = [i \in Inst |-> NoSwitch]
  /\ settingsPage \in {"part008", "part009"}
  /\ settings = DefaultSettings
  /\ saved = FALSE
  /\ saveTimers = {}
  /\ now = 0
  /\ savedAt = NoSave

NextSettings ==
  \/ \E value \in Themes : HandleChange("theme", value)
  \/ \E value \in BOOLEAN : HandleChange("maxQualityMode", value)
  \/ ResetSettings
  \/ HandleSaveSettings
  \/ \E due \in 0..(MaxTime + SaveDelay) : SaveTimeout(due)
  \/ Tick

SpecSettings == InitSettingsPage /\ [][NextSettings]_vars

\* C30: after a save that no change has followed, the saved notification
\* is shown until 3 seconds after that save, whatever saves came before
C30_SavedStaysShown ==
  (savedAt # NoSave /\ now < savedAt + SaveDelay) => saved

====
